---- MODULE Spec2Model ----
(***************************************************************************)
(* Model of src/lib.rs: the translation of glutin window events into servo *)
(* window events (WindowState::glutin_event_to_servo_event), the           *)
(* thread-local map of window states, and the event loop `run`.            *)
(***************************************************************************)
EXTENDS Integers, Sequences, FiniteSets, TLC

(* ---------------------------- bounds ----------------------------------- *)

\* Window ids glutin can hand out are 1..MaxWindows.
MaxWindows == 2
\* Scan codes of the keyboard are 1..MaxScanCode (see Keyboard).
MaxScanCode == 3
\* Largest length of pressed_key_map explored.
MaxPressed == 2
\* Mouse coordinates are 0..MaxCoord.
MaxCoord == 1
\* Scroll deltas are built from -MaxDelta..MaxDelta.
MaxDelta == 1
\* Largest number of Awakened events posted and not yet dispatched.
MaxAwakened == 1
\* The count of Idle callbacks per loop iteration saturates here.
MaxIdles == 3

(* ------------------------- Option<T> ----------------------------------- *)

None == <<>>
Some(x) == <<x>>

(* ------------------------- program constants --------------------------- *)

\* "Awakened comes with GLWindowId(0), which is a non existing window"
AwakenedWindowId == 0
\* glutin::MouseScrollDelta::LineDelta(dx, dy) => (dx, dy * 38.)
LineHeight == 38

\* bitflags KeyModifiers
KeyModifiers ==
    {"LEFT_CONTROL", "RIGHT_CONTROL", "LEFT_SHIFT", "RIGHT_SHIFT",
     "LEFT_ALT", "RIGHT_ALT", "LEFT_SUPER", "RIGHT_SUPER"}

\* char::is_control: the Unicode category Cc
is_control(ch) == ch \in (0..31) \cup (127..159)

\* The match of virtual_key_code that selects the modifier flag `m`.
ModifierFlag(virtual_key_code) ==
    CASE virtual_key_code = "LControl" -> Some("LEFT_CONTROL")
      [] virtual_key_code = "RControl" -> Some("RIGHT_CONTROL")
      [] virtual_key_code = "LShift" -> Some("LEFT_SHIFT")
      [] virtual_key_code = "RShift" -> Some("RIGHT_SHIFT")
      [] virtual_key_code = "LAlt" -> Some("LEFT_ALT")
      [] virtual_key_code = "RAlt" -> Some("RIGHT_ALT")
      [] virtual_key_code = "LWin" -> Some("LEFT_SUPER")
      [] virtual_key_code = "RWin" -> Some("RIGHT_SUPER")
      [] OTHER -> None

\* The pairs (glutin::VirtualKeyCode, servoapi::Key) of glutin_key_to_script_key
ScriptKeyTable == {
    <<"A", "A">>, <<"B", "B">>, <<"C", "C">>, <<"D", "D">>, <<"E", "E">>,
    <<"F", "F">>, <<"G", "G">>, <<"H", "H">>, <<"I", "I">>, <<"J", "J">>,
    <<"K", "K">>, <<"L", "L">>, <<"M", "M">>, <<"N", "N">>, <<"O", "O">>,
    <<"P", "P">>, <<"Q", "Q">>, <<"R", "R">>, <<"S", "S">>, <<"T", "T">>,
    <<"U", "U">>, <<"V", "V">>, <<"W", "W">>, <<"X", "X">>, <<"Y", "Y">>,
    <<"Z", "Z">>, <<"Numpad0", "Kp0">>, <<"Numpad1", "Kp1">>,
    <<"Numpad2", "Kp2">>, <<"Numpad3", "Kp3">>, <<"Numpad4", "Kp4">>,
    <<"Numpad5", "Kp5">>, <<"Numpad6", "Kp6">>, <<"Numpad7", "Kp7">>,
    <<"Numpad8", "Kp8">>, <<"Numpad9", "Kp9">>, <<"Key0", "Num0">>,
    <<"Key1", "Num1">>, <<"Key2", "Num2">>, <<"Key3", "Num3">>,
    <<"Key4", "Num4">>, <<"Key5", "Num5">>, <<"Key6", "Num6">>,
    <<"Key7", "Num7">>, <<"Key8", "Num8">>, <<"Key9", "Num9">>,
    <<"Return", "Enter">>, <<"Space", "Space">>, <<"Escape", "Escape">>,
    <<"Equals", "Equal">>, <<"Minus", "Minus">>, <<"Back", "Backspace">>,
    <<"PageDown", "PageDown">>, <<"PageUp", "PageUp">>,
    <<"Insert", "Insert">>, <<"Home", "Home">>, <<"Delete", "Delete">>,
    <<"End", "End">>, <<"Left", "Left">>, <<"Up", "Up">>,
    <<"Right", "Right">>, <<"Down", "Down">>, <<"LShift", "LeftShift">>,
    <<"LControl", "LeftControl">>, <<"LAlt", "LeftAlt">>,
    <<"LWin", "LeftSuper">>, <<"RShift", "RightShift">>,
    <<"RControl", "RightControl">>, <<"RAlt", "RightAlt">>,
    <<"RWin", "RightSuper">>, <<"Apostrophe", "Apostrophe">>,
    <<"Backslash", "Backslash">>, <<"Comma", "Comma">>,
    <<"Grave", "GraveAccent">>, <<"LBracket", "LeftBracket">>,
    <<"Period", "Period">>, <<"RBracket", "RightBracket">>,
    <<"Semicolon", "Semicolon">>, <<"Slash", "Slash">>, <<"Tab", "Tab">>,
    <<"Subtract", "Minus">>, <<"F1", "F1">>, <<"F2", "F2">>, <<"F3", "F3">>,
    <<"F4", "F4">>, <<"F5", "F5">>, <<"F6", "F6">>, <<"F7", "F7">>,
    <<"F8", "F8">>, <<"F9", "F9">>, <<"F10", "F10">>, <<"F11", "F11">>,
    <<"F12", "F12">>, <<"NavigateBackward", "NavigateBackward">>,
    <<"NavigateForward", "NavigateForward">>}

\* glutin_key_to_script_key: Some(key) for Ok(key), None for Err(())
glutin_key_to_script_key(key) ==
    IF \E p \in ScriptKeyTable : p[1] = key
    THEN Some((CHOOSE p \in ScriptKeyTable : p[1] = key)[2])
    ELSE None

glutin_mods_to_script_mods(modifiers) ==
    (IF modifiers \cap {"LEFT_SHIFT", "RIGHT_SHIFT"} # {} THEN {"SHIFT"} ELSE {})
    \cup
    (IF modifiers \cap {"LEFT_CONTROL", "RIGHT_CONTROL"} # {} THEN {"CONTROL"} ELSE {})
    \cup
    (IF modifiers \cap {"LEFT_ALT", "RIGHT_ALT"} # {} THEN {"ALT"} ELSE {})
    \cup
    (IF modifiers \cap {"LEFT_SUPER", "RIGHT_SUPER"} # {} THEN {"SUPER"} ELSE {})

\* The key codes for which is_printable answers false.
NonPrintableKeys == {
    "Escape", "F1", "F2", "F3", "F4", "F5", "F6", "F7", "F8", "F9", "F10",
    "F11", "F12", "F13", "F14", "F15", "Snapshot", "Scroll", "Pause",
    "Insert", "Home", "Delete", "End", "PageDown", "PageUp", "Left", "Up",
    "Right", "Down", "Back", "LAlt", "LControl", "LMenu", "LShift", "LWin",
    "Mail", "MediaSelect", "MediaStop", "Mute", "MyComputer",
    "NavigateForward", "NavigateBackward", "NextTrack", "NoConvert",
    "PlayPause", "Power", "PrevTrack", "RAlt", "RControl", "RMenu", "RShift",
    "RWin", "Sleep", "Stop", "VolumeDown", "VolumeUp", "Wake", "WebBack",
    "WebFavorites", "WebForward", "WebHome", "WebRefresh", "WebSearch",
    "WebStop"}

is_printable(key_code) == key_code \notin NonPrintableKeys

\* Mutant: the key code is not looked at.
filter_nonprintable_Unfiltered(ch, key_code) == Some(ch)

filter_nonprintable(ch, key_code) ==
    IF is_printable(key_code) THEN Some(ch) ELSE None

(* ------------------------- WindowState --------------------------------- *)

Abs(n) == IF n < 0 THEN -n ELSE n

\* The WindowState that GLWindow::new inserts.
NewWindowState ==
    [mouse_position |-> <<0, 0>>,
     key_modifiers |-> {},
     pending_key_event_char |-> None,
     pressed_key_map |-> <<>>]

\* KeyModifiers::toggle
Toggle(modifiers, modifier) ==
    IF modifier \in modifiers THEN modifiers \ {modifier}
                              ELSE modifiers \cup {modifier}

\* key_modifiers after the `if let Some(modifier) = m` block
ToggledModifiers(modifiers, virtual_key_code) ==
    LET m == ModifierFlag(virtual_key_code)
    IN  IF m # None THEN Toggle(modifiers, m[1]) ELSE modifiers

\* Mutant: `>` for `>=`, a tie scrolls horizontally.
ScrollDelta_TieHorizontal(delta) ==
    LET dx == delta.dx
        dy == IF delta.kind = "LineDelta" THEN delta.dy * LineHeight
                                          ELSE delta.dy
    IN  IF Abs(dy) > Abs(dx) THEN <<0, dy>> ELSE <<dx, 0>>

\* (dx, dy) of the ScrollLocation::Delta built for a MouseWheel event
ScrollDelta(delta) ==
    LET dx == delta.dx
        dy == IF delta.kind = "LineDelta" THEN delta.dy * LineHeight
                                          ELSE delta.dy
    IN  IF Abs(dy) >= Abs(dx) THEN <<0, dy>> ELSE <<dx, 0>>

\* glutin::TouchPhase => TouchEventType
TouchPhaseToEventType(phase) ==
    CASE phase = "Started" -> "Down"
      [] phase = "Moved" -> "Move"
      [] phase = "Ended" -> "Up"
      [] phase = "Cancelled" -> "Cancel"

\* Iterator::position(|&(code, _)| code == scan_code): 1-based here
Position(map, scan_code) ==
    IF \E i \in 1..Len(map) : map[i][1] = scan_code
    THEN Some(CHOOSE i \in 1..Len(map) :
                 /\ map[i][1] = scan_code
                 /\ \A j \in 1..(i - 1) : map[j][1] # scan_code)
    ELSE None

\* Vec::swap_remove(idx): the last element takes the place of the removed one
SwapRemove(map, idx) ==
    [i \in 1..(Len(map) - 1) |-> IF i = idx THEN map[Len(map)] ELSE map[i]]

\* Mutant: the position is not stored.
OnMouseMoved_NotStored(self, x, y) ==
    [self |-> self,
     result |-> Some([class |-> "MouseWindowMoveEventClass", x |-> x, y |-> y])]

\* arm MouseMoved(x, y)
OnMouseMoved(self, x, y) ==
    [self |-> [self EXCEPT !.mouse_position = <<x, y>>],
     result |-> Some([class |-> "MouseWindowMoveEventClass", x |-> x, y |-> y])]

\* arm MouseWheel(delta, phase)
OnMouseWheel(self, delta, phase) ==
    LET d == ScrollDelta(delta)
    IN  [self |-> self,
         result |-> Some([class |-> "Scroll", dx |-> d[1], dy |-> d[2],
                          x |-> self.mouse_position[1],
                          y |-> self.mouse_position[2],
                          phase |-> TouchPhaseToEventType(phase)])]

\* arm MouseInput(Released, Left)
OnMouseInput(self) ==
    [self |-> self,
     result |-> Some([class |-> "MouseWindowEventClass", kind |-> "Click",
                      button |-> "Left",
                      x |-> self.mouse_position[1],
                      y |-> self.mouse_position[2]])]

\* arm ReceivedCharacter(ch)
OnReceivedCharacter(self, ch) ==
    [self |-> IF ~is_control(ch)
              THEN [self EXCEPT !.pending_key_event_char = Some(ch)]
              ELSE self,
     result |-> None]

\* Mutant: the pending character is left in place.
OnPressed_KeepPending(self, scan_code, virtual_key_code) ==
    LET pending == self.pending_key_event_char
        ch == IF pending = None THEN None
              ELSE filter_nonprintable(pending[1], virtual_key_code)
    IN  [ch |-> ch,
         pending_key_event_char |-> pending,
         pressed_key_map |-> IF ch # None
                             THEN Append(self.pressed_key_map, <<scan_code, ch[1]>>)
                             ELSE self.pressed_key_map]

\* `let ch = match element_state`, the arm Pressed: the character and the
\* fields it leaves behind
OnPressed(self, scan_code, virtual_key_code) ==
    LET pending == self.pending_key_event_char
        ch == IF pending = None THEN None
              ELSE filter_nonprintable(pending[1], virtual_key_code)
    IN  [ch |-> ch,
         pending_key_event_char |-> None,
         pressed_key_map |-> IF ch # None
                             THEN Append(self.pressed_key_map, <<scan_code, ch[1]>>)
                             ELSE self.pressed_key_map]

\* `let ch = match element_state`, the arm Released
OnReleased(self, scan_code) ==
    LET idx == Position(self.pressed_key_map, scan_code)
    IN  [ch |-> IF idx = None THEN None
                ELSE Some(self.pressed_key_map[idx[1]][2]),
         pending_key_event_char |-> self.pending_key_event_char,
         pressed_key_map |-> IF idx = None THEN self.pressed_key_map
                             ELSE SwapRemove(self.pressed_key_map, idx[1])]

\* arm KeyboardInput(element_state, scan_code, Some(virtual_key_code), _mods)
OnKeyboardInput(self, element_state, scan_code, virtual_key_code) ==
    LET modifiers == ToggledModifiers(self.key_modifiers, virtual_key_code)
        r == IF element_state = "Pressed"
             THEN OnPressed(self, scan_code, virtual_key_code)
             ELSE OnReleased(self, scan_code)
        key == glutin_key_to_script_key(virtual_key_code)
    IN  [self |-> [self EXCEPT
                     !.key_modifiers = modifiers,
                     !.pending_key_event_char = r.pending_key_event_char,
                     !.pressed_key_map = r.pressed_key_map],
         result |-> IF key # None
                    THEN Some([class |-> "KeyEvent", ch |-> r.ch, key |-> key[1],
                               state |-> element_state,
                               modifiers |-> glutin_mods_to_script_mods(modifiers)])
                    ELSE None]

\* WindowState::glutin_event_to_servo_event: the state it leaves in `self`
\* and the Option<ServoWindowEvent> it returns
glutin_event_to_servo_event(self, event) ==
    CASE event.type = "MouseMoved" -> OnMouseMoved(self, event.x, event.y)
      [] event.type = "MouseWheel" -> OnMouseWheel(self, event.delta, event.phase)
      [] event.type = "MouseInput" /\ event.state = "Released"
                                   /\ event.button = "Left" -> OnMouseInput(self)
      [] event.type = "ReceivedCharacter" -> OnReceivedCharacter(self, event.ch)
      [] event.type = "KeyboardInput" /\ event.virtual_key_code # None ->
             OnKeyboardInput(self, event.state, event.scan_code,
                             event.virtual_key_code[1])
      [] OTHER -> [self |-> self, result |-> None]

(* ------------------------- the event loop ------------------------------ *)

\* ServoWindowEvent::Idle
Idle == [class |-> "Idle"]

\* Mutant: the window id is not passed on.
Call_NoWindowId(event, window_id) == [event |-> event, window_id |-> None]

\* One invocation of `callback(event, window_id)`
Call(event, window_id) == [event |-> event, window_id |-> window_id]

\* Mutant: an event without translation is delivered as Idle.
OnWindowEvent_NoneAsIdle(map, event, window_id) ==
    IF window_id \in DOMAIN map
    THEN LET r == glutin_event_to_servo_event(map[window_id], event)
         IN  [windows |-> [map EXCEPT ![window_id] = r.self],
              calls |-> IF r.result # None
                        THEN <<Call(r.result[1], Some(window_id))>>
                        ELSE <<Call(Idle, None)>>]
    ELSE [windows |-> map,
          calls |-> IF event.type = "Awakened"
                    THEN <<Call(Idle, None)>>
                    ELSE <<>>]

\* Mutant: every event of an unknown window is delivered as Idle.
OnWindowEvent_UnknownAsIdle(map, event, window_id) ==
    IF window_id \in DOMAIN map
    THEN LET r == glutin_event_to_servo_event(map[window_id], event)
         IN  [windows |-> [map EXCEPT ![window_id] = r.self],
              calls |-> IF r.result # None
                        THEN <<Call(r.result[1], Some(window_id))>>
                        ELSE <<>>]
    ELSE [windows |-> map, calls |-> <<Call(Idle, None)>>]

\* The closure `run` passes to LOOP.run_forever, applied to
\* glutin::Event::WindowEvent {event, window_id}: the map it leaves in
\* WINDOWS_STATE and the callback invocations it makes
OnWindowEvent(map, event, window_id) ==
    IF window_id \in DOMAIN map
    THEN LET r == glutin_event_to_servo_event(map[window_id], event)
         IN  [windows |-> [map EXCEPT ![window_id] = r.self],
              calls |-> IF r.result # None
                        THEN <<Call(r.result[1], Some(window_id))>>
                        ELSE <<>>]
    ELSE [windows |-> map,
          calls |-> IF event.type = "Awakened"
                    THEN <<Call(Idle, None)>>
                    ELSE <<>>]

VARIABLES
    windows,      \* WINDOWS_STATE: GLWindowId -> WindowState
    pc,           \* "setup", "run_forever", "idle" (run_forever returned),
                  \* "loop" (end of an iteration of `loop`), "panicked"
    interrupted,  \* LOOP.interrupt() was called and run_forever has not returned since
    awakened,     \* Awakened events posted by interrupt() and not yet dispatched
    last,         \* what the last step did: [op, event, window_id]
    calls,        \* the callback invocations the last step made
    held,         \* history: per window, the modifier keys pressed and not yet released
    reported,     \* history: per window, the characters reported since the last press that consumed them
    press_char,   \* history: per window and scan code, the character of its latest pressed KeyEvent
    moved,        \* history: per window, the coordinates of its latest MouseMoved
    attached,     \* history: per window, the pressed KeyEvents that carried the latest reported character
    idles         \* history: Idle invocations in the current iteration of `loop`

vars == <<windows, pc, interrupted, awakened, last, calls,
          held, reported, press_char, moved, attached, idles>>

history == <<held, reported, press_char, moved, attached>>

WindowIds == 1..MaxWindows
ScanCodes == 1..MaxScanCode
Coords == 0..MaxCoord

\* The virtual key code the keyboard reports for each scan code.
Keyboard == <<"A", "LShift", "Escape", "Key1", "RShift", "LControl", "Add", "F13">>

\* 'a', 'b', and the control character '\r'
Chars == {97, 98, 13}

DeltaValues == UNION {{d, d * LineHeight} : d \in (-MaxDelta)..MaxDelta}

MouseMovedEvents == {[type |-> "MouseMoved", x |-> x, y |-> y] : x, y \in Coords}

MouseWheelEvents ==
    {[type |-> "MouseWheel",
      delta |-> [kind |-> k, dx |-> dx, dy |-> dy], phase |-> p] :
        k \in {"LineDelta", "PixelDelta"}, dx \in DeltaValues, dy \in DeltaValues,
        p \in {"Started", "Moved", "Ended", "Cancelled"}}

MouseInputEvents ==
    {[type |-> "MouseInput", state |-> s, button |-> b] :
        s \in {"Pressed", "Released"}, b \in {"Left", "Right"}}

ReceivedCharacterEvents == {[type |-> "ReceivedCharacter", ch |-> c] : c \in Chars}

KeyboardInputEvents ==
    {[type |-> "KeyboardInput", state |-> s, scan_code |-> sc,
      virtual_key_code |-> Some(Keyboard[sc])] :
        s \in {"Pressed", "Released"}, sc \in ScanCodes}

\* Events the translation has no arm for.
UnmappedEvents ==
    {[type |-> "Resized"], [type |-> "Focused"]}
    \cup {[type |-> "KeyboardInput", state |-> s, scan_code |-> 1,
           virtual_key_code |-> None] : s \in {"Pressed", "Released"}}

Put(f, k, v) == [x \in DOMAIN f \cup {k} |-> IF x = k THEN v ELSE f[x]]

Min(a, b) == IF a < b THEN a ELSE b

Init ==
    /\ windows = <<>>
    /\ pc = "setup"
    /\ interrupted = FALSE
    /\ awakened = 0
    /\ last = [op |-> "init", event |-> None, window_id |-> None]
    /\ calls = <<>>
    /\ held = <<>>
    /\ reported = <<>>
    /\ press_char = <<>>
    /\ moved = <<>>
    /\ attached = <<>>
    /\ idles = 0

\* What GLWindow::new does to WINDOWS_STATE, with the histories of the new window
InsertWindow(id) ==
    /\ windows' = Put(windows, id, NewWindowState)
    /\ held' = Put(held, id, {})
    /\ reported' = Put(reported, id, {})
    /\ press_char' = Put(press_char, id, [sc \in ScanCodes |-> None])
    /\ moved' = Put(moved, id, <<0, 0>>)
    /\ attached' = Put(attached, id, 0)

\* GLWindow::new called before `run`
NewWindow(id) ==
    /\ pc = "setup"
    /\ id \notin DOMAIN windows
    /\ InsertWindow(id)
    /\ last' = [op |-> "new", event |-> None, window_id |-> Some(id)]
    /\ calls' = <<>>
    /\ UNCHANGED <<pc, interrupted, awakened, idles>>

\* `run` is called, or its `loop` starts over: LOOP.run_forever is entered
Run ==
    /\ pc \in {"setup", "loop"}
    /\ pc' = "run_forever"
    /\ last' = [op |-> "run", event |-> None, window_id |-> None]
    /\ calls' = <<>>
    /\ idles' = 0
    /\ UNCHANGED <<windows, interrupted, awakened, history>>

\* GLWindowEventLoopWaker::wake: LOOP.interrupt() sets the flag and posts Awakened
Wake ==
    /\ pc \in {"run_forever", "idle", "loop"}
    /\ awakened < MaxAwakened
    /\ interrupted' = TRUE
    /\ awakened' = awakened + 1
    /\ last' = [op |-> "wake", event |-> None, window_id |-> None]
    /\ calls' = <<>>
    /\ UNCHANGED <<windows, pc, idles, history>>

IsKeyboardInput(event) ==
    event.type = "KeyboardInput" /\ event.virtual_key_code # None

IsPressedKeyEvent(c) ==
    c.event.class = "KeyEvent" /\ c.event.state = "Pressed"

IsReleasedKeyEvent(c) ==
    c.event.class = "KeyEvent" /\ c.event.state = "Released"

\* The histories after window w has handled `event` with invocations cs
Observe(event, w, cs) ==
    /\ held' =
         IF IsKeyboardInput(event) /\ ModifierFlag(event.virtual_key_code[1]) # None
         THEN [held EXCEPT ![w] =
                 IF event.state = "Pressed"
                 THEN @ \cup {event.virtual_key_code[1]}
                 ELSE @ \ {event.virtual_key_code[1]}]
         ELSE held
    /\ reported' =
         IF event.type = "ReceivedCharacter"
         THEN [reported EXCEPT ![w] = @ \cup {event.ch}]
         ELSE IF IsKeyboardInput(event) /\ event.state = "Pressed"
         THEN [reported EXCEPT ![w] = {}]
         ELSE reported
    /\ press_char' =
         IF cs # <<>> /\ IsPressedKeyEvent(cs[1])
         THEN [press_char EXCEPT ![w][event.scan_code] = cs[1].event.ch]
         ELSE IF cs # <<>> /\ IsReleasedKeyEvent(cs[1])
         THEN [press_char EXCEPT ![w][event.scan_code] = None]
         ELSE press_char
    /\ moved' =
         IF event.type = "MouseMoved"
         THEN [moved EXCEPT ![w] = <<event.x, event.y>>]
         ELSE moved
    /\ attached' =
         IF event.type = "ReceivedCharacter" /\ ~is_control(event.ch)
         THEN [attached EXCEPT ![w] = 0]
         ELSE IF cs # <<>> /\ IsPressedKeyEvent(cs[1]) /\ cs[1].event.ch # None
         THEN [attached EXCEPT ![w] = Min(@ + 1, 2)]
         ELSE attached

\* One event dispatched by LOOP.run_forever to the closure of `run`, and the
\* check of the interrupt flag that follows it.  `create` says whether the
\* callback calls GLWindow::new: WINDOWS_STATE is mutably borrowed by the
\* closure at that point, so the second borrow_mut panics.
Dispatch(event, window_id, create) ==
    LET r == OnWindowEvent(windows, event, window_id)
        panics == create /\ r.calls # <<>>
    IN  /\ pc = "run_forever"
        /\ create => r.calls # <<>>
        /\ \A w \in DOMAIN r.windows : Len(r.windows[w].pressed_key_map) <= MaxPressed
        /\ windows' = r.windows
        /\ calls' = r.calls
        /\ last' = [op |-> "dispatch", event |-> Some(event),
                    window_id |-> Some(window_id)]
        /\ pc' = IF panics THEN "panicked"
                 ELSE IF interrupted THEN "idle" ELSE "run_forever"
        /\ interrupted' = IF panics THEN interrupted ELSE FALSE
        /\ idles' = IF r.calls # <<>> /\ r.calls[1].event = Idle
                    THEN Min(idles + 1, MaxIdles) ELSE idles
        /\ IF window_id \in DOMAIN windows
           THEN Observe(event, window_id, r.calls)
           ELSE UNCHANGED history

\* An event of the window system arrives
PlatformEvent(event, window_id, create) ==
    /\ Dispatch(event, window_id, create)
    /\ UNCHANGED awakened

\* The Awakened event posted by interrupt() arrives
AwakenedEvent(create) ==
    /\ awakened > 0
    /\ Dispatch([type |-> "Awakened"], AwakenedWindowId, create)
    /\ awakened' = awakened - 1

\* run_forever has returned: `callback(ServoWindowEvent::Idle, None)` ends
\* the iteration of `loop`.  WINDOWS_STATE is not borrowed here, so a
\* callback that calls GLWindow::new inserts the window create[1].
TrailingIdle(create) ==
    /\ pc = "idle"
    /\ pc' = "loop"
    /\ calls' = <<Call(Idle, None)>>
    /\ last' = [op |-> "idle", event |-> None, window_id |-> None]
    /\ idles' = Min(idles + 1, MaxIdles)
    /\ IF create = None
       THEN UNCHANGED <<windows, history>>
       ELSE create[1] \notin DOMAIN windows /\ InsertWindow(create[1])
    /\ UNCHANGED <<interrupted, awakened>>

CreateChoices == {None} \cup {Some(id) : id \in WindowIds}

\* The inputs of each specification
LoopInputs ==
    UnmappedEvents
    \cup {[type |-> "MouseMoved", x |-> 0, y |-> 0],
          [type |-> "MouseInput", state |-> "Released", button |-> "Left"],
          [type |-> "MouseInput", state |-> "Pressed", button |-> "Left"],
          [type |-> "ReceivedCharacter", ch |-> 97]}

MouseInputs ==
    MouseMovedEvents \cup MouseInputEvents
    \cup {e \in MouseWheelEvents : e.delta.dx = 0 /\ e.delta.dy = 1
                                   /\ e.delta.kind = "PixelDelta"}

KeyInputs == ReceivedCharacterEvents \cup KeyboardInputEvents

\* The windows are created, then `run` is called
Setup ==
    \/ \E id \in WindowIds : NewWindow(id)
    \/ Run

\* The loop with events of every arm, addressed to known and unknown
\* windows, wake-ups from other threads and callbacks that create windows
Next ==
    \/ Setup
    \/ Wake
    \/ \E event \in LoopInputs, window_id \in {AwakenedWindowId} \cup WindowIds,
          create \in BOOLEAN :
          PlatformEvent(event, window_id, create)
    \/ \E create \in BOOLEAN : AwakenedEvent(create)
    \/ \E create \in CreateChoices : TrailingIdle(create)
Spec == Init /\ [][Next]_vars

\* Mouse events, addressed to every window
NextMouse ==
    \/ Setup
    \/ \E event \in MouseInputs, window_id \in WindowIds :
          PlatformEvent(event, window_id, FALSE)
SpecMouse == Init /\ [][NextMouse]_vars

\* Every MouseWheel event, addressed to one window
NextScroll ==
    \/ Setup
    \/ \E event \in MouseWheelEvents : PlatformEvent(event, 1, FALSE)
SpecScroll == Init /\ [][NextScroll]_vars

\* Keyboard events of one window
NextKeys ==
    \/ NewWindow(1)
    \/ Run
    \/ \E event \in KeyInputs : PlatformEvent(event, 1, FALSE)
SpecKeys == Init /\ [][NextKeys]_vars

(* ------------------------- claims -------------------------------------- *)

\* The last step dispatched an event to a window of WINDOWS_STATE
DispatchedToWindow ==
    /\ last.op = "dispatch"
    /\ last.window_id[1] \in DOMAIN windows

\* The left and right key of each class of modifier
ClassKeys ==
    [SHIFT |-> {"LShift", "RShift"}, CONTROL |-> {"LControl", "RControl"},
     ALT |-> {"LAlt", "RAlt"}, SUPER |-> {"LWin", "RWin"}]

ModifierKeys == UNION {ClassKeys[c] : c \in DOMAIN ClassKeys}

\* C1: in every window the bit of a modifier key is set exactly when that
\* key is held (pressed and not yet released), and the modifiers of every
\* delivered KeyEvent contain SHIFT, CONTROL, ALT, SUPER exactly when a key
\* of that class is held once the event has been applied.
C1_ModifiersAreHeldKeys ==
    /\ \A w \in DOMAIN windows : \A k \in ModifierKeys :
          (ModifierFlag(k)[1] \in windows[w].key_modifiers) <=> (k \in held[w])
    /\ \A i \in 1..Len(calls) :
          calls[i].event.class = "KeyEvent" =>
             \A c \in DOMAIN ClassKeys :
                (c \in calls[i].event.modifiers)
                   <=> (ClassKeys[c] \cap held[last.window_id[1]] # {})

C3_ReleasedCharIsPressedChar ==
    [][(/\ last'.op = "dispatch"
        /\ calls' # <<>>
        /\ IsReleasedKeyEvent(calls'[1]))
       => LET w == last'.window_id[1]
              sc == last'.event[1].scan_code
              map == windows'[w].pressed_key_map
          IN  /\ calls'[1].event.ch = press_char[w][sc]
              /\ \A i \in 1..Len(map) : map[i][1] # sc]_vars

\* C4: every Scroll and Click delivered for a window carries the coordinates
\* of the latest MouseMoved of that window, (0,0) if it had none, and the
\* position kept for each window is the one of its own latest MouseMoved.
C4_MousePositionPerWindow ==
    /\ \A w \in DOMAIN windows : windows[w].mouse_position = moved[w]
    /\ \A i \in 1..Len(calls) :
          calls[i].event.class \in {"Scroll", "MouseWindowEventClass"} =>
             <<calls[i].event.x, calls[i].event.y>> = moved[last.window_id[1]]

\* A Scroll or Click of a window that has moved the mouse, while another
\* window has its mouse elsewhere.
C4_Witness ==
    /\ DispatchedToWindow
    /\ calls # <<>>
    /\ calls[1].event.class \in {"Scroll", "MouseWindowEventClass"}
    /\ moved[last.window_id[1]] # <<0, 0>>
    /\ \E v \in DOMAIN windows :
          moved[v] \notin {<<0, 0>>, moved[last.window_id[1]]}

\* C5: each iteration of the loop of `run` (a batch of events dispatched by
\* run_forever, then the Idle that follows it) invokes the callback with
\* Idle exactly once.
C5_OneIdlePerBatch ==
    pc = "loop" => idles = 1

\* C6: an event of a known window for which glutin_event_to_servo_event
\* returns None invokes no callback, and the loop goes on.
C6_UnmappedEventDropped ==
    [][(/\ last'.op = "dispatch"
        /\ last'.window_id[1] \in DOMAIN windows
        /\ glutin_event_to_servo_event(windows[last'.window_id[1]],
                                       last'.event[1]).result = None)
       => /\ calls' = <<>>
          /\ pc' \in {"run_forever", "idle"}]_vars

\* An event without translation was dispatched to a known window.
C6_Witness ==
    /\ DispatchedToWindow
    /\ last.event[1].type \in {"Resized", "KeyboardInput", "ReceivedCharacter"}
    /\ calls = <<>>
    /\ pc = "run_forever"

\* C7: a callback invocation with a translated event carries the id of the
\* window the platform event was addressed to, a window of the map; an
\* invocation with Idle carries no window id.
C7_CallbackWindowId ==
    \A i \in 1..Len(calls) :
       IF calls[i].event = Idle
       THEN calls[i].window_id = None
       ELSE /\ DispatchedToWindow
            /\ calls[i].window_id = last.window_id

\* A translated event was delivered for the second of two windows.
C7_Witness ==
    /\ DispatchedToWindow
    /\ calls # <<>>
    /\ calls[1].event # Idle
    /\ calls[1].window_id = Some(2)
    /\ 1 \in DOMAIN windows

\* C8: the Scroll of a MouseWheel event has the delta (dx, 38*dy) of a line
\* delta, (dx, dy) of a pixel delta, with the horizontal component zeroed
\* when |dy| >= |dx| and the vertical one zeroed otherwise; its phase is
\* Down, Move, Up, Cancel for Started, Moved, Ended, Cancelled.
C8_ScrollDelta ==
    (DispatchedToWindow /\ last.event[1].type = "MouseWheel") =>
       /\ Len(calls) = 1
       /\ calls[1].event.class = "Scroll"
       /\ LET in == last.event[1].delta
              out == calls[1].event
              sx == in.dx
              sy == IF in.kind = "LineDelta" THEN 38 * in.dy ELSE in.dy
              vertical == (IF sy < 0 THEN -sy ELSE sy) >= (IF sx < 0 THEN -sx ELSE sx)
          IN  /\ vertical => out.dx = 0 /\ out.dy = sy
              /\ ~vertical => out.dx = sx /\ out.dy = 0
              /\ out.dx = 0 \/ out.dy = 0
              /\ <<last.event[1].phase, out.phase>> \in
                    {<<"Started", "Down">>, <<"Moved", "Move">>,
                     <<"Ended", "Up">>, <<"Cancelled", "Cancel">>}

\* A line delta that ties after scaling: dx = 38, dy = 1 scrolls vertically.
C8_Witness ==
    /\ DispatchedToWindow
    /\ last.event[1].type = "MouseWheel"
    /\ last.event[1].delta = [kind |-> "LineDelta", dx |-> 38, dy |-> 1]
    /\ calls[1].event.dx = 0
    /\ calls[1].event.dy = 38

\* C9: an event addressed to a window id that is not in the map invokes the
\* callback only if it is Awakened, then with Idle and no window id, and
\* leaves the map of window states as it was.
C9_UnknownWindow ==
    [][(/\ last'.op = "dispatch"
        /\ last'.window_id[1] \notin DOMAIN windows)
       => /\ windows' = windows
          /\ calls' = IF last'.event[1].type = "Awakened"
                      THEN <<[event |-> [class |-> "Idle"], window_id |-> None]>>
                      ELSE <<>>]_vars

\* Awakened was dispatched to an unknown window id while a window whose
\* state is no longer the initial one exists.
C9_Witness ==
    /\ last.op = "dispatch"
    /\ last.window_id[1] \notin DOMAIN windows
    /\ last.event[1].type = "Awakened"
    /\ calls # <<>>
    /\ \E w \in DOMAIN windows : windows[w] # NewWindowState

\* C10: after a KeyboardInput Pressed with a known virtual key code the
\* window has no pending character, and no reported character is carried
\* by two pressed KeyEvents.
C10_CharAttachedOnce ==
    /\ \A w \in DOMAIN windows : attached[w] <= 1
    /\ (/\ DispatchedToWindow
        /\ IsKeyboardInput(last.event[1])
        /\ last.event[1].state = "Pressed")
       => windows[last.window_id[1]].pending_key_event_char = None

\* A press that attached no character (the key is not printable) cleared the
\* character that had been reported.
C10_Witness ==
    /\ DispatchedToWindow
    /\ IsKeyboardInput(last.event[1])
    /\ last.event[1].state = "Pressed"
    /\ calls # <<>>
    /\ calls[1].event.ch = None
    /\ attached[last.window_id[1]] = 0
    /\ windows[last.window_id[1]].pending_key_event_char = None
    /\ press_char[last.window_id[1]][1] # None

\* C11: WINDOWS_STATE is never borrowed mutably while another borrow of it
\* is live: a callback that calls GLWindow::new while it handles an event
\* delivered by `run`, a window event or Idle, never finds the map borrowed,
\* so the borrow_mut of GLWindow::new never panics.
C11_NoBorrowConflict ==
    pc # "panicked"
====
